---- MODULE Spec2Model ----
(***************************************************************************)
(* BeautyConnect backend: the HTTP endpoint layer of src/main.py over the  *)
(* document store gateway (database.create_document / get_documents), with *)
(* the request shapes of src/schemas.py.                                   *)
(*                                                                         *)
(* A request handler that makes one store call is one action; a handler    *)
(* that makes several (seed_demo_data, create_booking) is one action per   *)
(* store call, so that the store calls of concurrent requests interleave.  *)
(* Ratings are held in tenths (4.9 is 49).  Cyrillic literals of the       *)
(* source are transliterated.                                              *)
(*                                                                         *)
(* resp holds one response at a time: a handler step waits until the       *)
(* previous response has reached its caller (Deliver), so each response is *)
(* seen next to the store it was computed from.  Room and MaxInflight keep  *)
(* the store and the number of half-done requests finite.                  *)
(***************************************************************************)
EXTENDS Integers, Sequences, FiniteSets, TLC

VARIABLES
    connected,   \* database.db is not None
    startupOk,   \* history: whether the startup connection attempt succeeded
    store,       \* the document store: collection name -> sequence of documents
    nextId,      \* the store's identifier generator (ObjectId)
    owner,       \* history: owner[oid] = first oid inserted by the request that inserted oid
    created,     \* history: the create_master requests answered 201, as <<id, body>>
    inflight,    \* requests between two of their store calls
    resp         \* the response being returned to a caller, NoResp when none

vars == <<connected, startupOk, store, nextId, owner, created, inflight, resp>>

\* Python None, and an absent query parameter or JSON field.
NULL == "<None>"

\* Total number of documents the store may come to hold.
MaxDocs == 4
\* Number of requests that may be between two store calls at once.
MaxInflight == 2

\* str(ObjectId): the identifier as the text handed to callers.
Str(oid) == ToString(oid)

\* Python truthiness of an Optional[str]: None and "" are falsy.
Truthy(s) == s # NULL /\ s # ""

Collections == {"master", "client", "booking"}

-----------------------------------------------------------------------------
(* Request shapes                                                          *)

\* EmailStr, on the sample addresses the requests are drawn from.
IsEmail(e) == e \in {"jane@example.com", "ira@example.com"}

\* datetime, on the sample timestamps the requests are drawn from.
IsDatetime(d) == d \in {"2024-06-01T10:00:00Z"}

\* A query parameter limit is <<>> when the caller omits it and <<n>> when the
\* caller supplies n.
\* limit: int = Query(default=.., ge=lo, le=hi)
LimitValid(limit, lo, hi) == limit = <<>> \/ (limit[1] >= lo /\ limit[1] <= hi)

\* Variant of MastersLimitValid: the upper bound le=100 is not declared.
MastersLimitValid_NoUpper(limit) == limit = <<>> \/ limit[1] >= 1

MastersLimitValid(limit) == LimitValid(limit, 1, 100)

BookingsLimitValid(limit) == LimitValid(limit, 1, 200)

MastersLimit(limit) == IF limit = <<>> THEN 12 ELSE limit[1]

BookingsLimit(limit) == IF limit = <<>> THEN 50 ELSE limit[1]

\* Variant of MasterErrors: email is declared Optional[str], so any text passes.
MasterErrors_NoEmail(m) ==
    {f \in {"name", "rating", "reviews_count"} :
        \/ f = "name" /\ m.name = NULL
        \/ f = "rating" /\ ~(m.rating >= 0 /\ m.rating <= 50)
        \/ f = "reviews_count" /\ ~(m.reviews_count >= 0)}

\* Master: the fields whose constraint the body violates.
MasterErrors(m) ==
    {f \in {"name", "email", "rating", "reviews_count"} :
        \/ f = "name" /\ m.name = NULL
        \/ f = "email" /\ m.email # NULL /\ ~IsEmail(m.email)
        \/ f = "rating" /\ ~(m.rating >= 0 /\ m.rating <= 50)
        \/ f = "reviews_count" /\ ~(m.reviews_count >= 0)}

\* BookingRequest: the fields whose constraint the body violates.
BookingRequestErrors(r) ==
    {f \in {"master_id", "name", "email", "datetime_utc"} :
        \/ f = "master_id" /\ r.master_id = NULL
        \/ f = "name" /\ r.name = NULL
        \/ f = "email" /\ ~IsEmail(r.email)
        \/ f = "datetime_utc" /\ ~IsDatetime(r.datetime_utc)}

Client(name, email) ==
    [name |-> name, email |-> email, phone |-> NULL, avatar |-> NULL]

Booking(master_id, client_id, service_id, datetime_utc, status, notes) ==
    [master_id |-> master_id, client_id |-> client_id, service_id |-> service_id,
     datetime_utc |-> datetime_utc, status |-> status, notes |-> notes]

ALL_SCHEMAS == {"master", "client", "service", "booking", "review", "portfolioitem"}

-----------------------------------------------------------------------------
(* Request inputs                                                          *)

MasterBody(name, email, city, avatar, skills, rating, reviews_count) ==
    [name |-> name, email |-> email, phone |-> NULL, city |-> city, bio |-> NULL,
     avatar |-> avatar, skills |-> skills, rating |-> rating,
     reviews_count |-> reviews_count]

ValidMasterInputs ==
    { MasterBody("Anna", NULL, "Moskva", "https://img.example/a.png",
                 <<"Makeup", "Stylist">>, 49, 182),
      MasterBody("Ira", "ira@example.com", "", NULL, <<>>, 0, 0),
      MasterBody("Maria", NULL, NULL, NULL, <<"Hair">>, 50, 3) }

InvalidMasterInputs ==
    { MasterBody("Anna", "not-an-email", "Moskva", NULL, <<>>, 0, 0),
      MasterBody(NULL, NULL, "Moskva", NULL, <<>>, 0, 0),
      MasterBody("Anna", NULL, "Moskva", NULL, <<>>, 51, 0),
      MasterBody("Anna", NULL, "Moskva", NULL, <<>>, -1, 0),
      MasterBody("Anna", NULL, "Moskva", NULL, <<>>, 0, -1) }

MasterInputs == ValidMasterInputs \cup InvalidMasterInputs

CityInputs == {NULL, "", "Moskva", "Kazan"}

MastersLimitInputs == {<<>>, <<-1>>, <<0>>, <<1>>, <<100>>, <<101>>}

BookingBody(master_id, name, email, datetime_utc, notes) ==
    [master_id |-> master_id, name |-> name, email |-> email,
     datetime_utc |-> datetime_utc, notes |-> notes]

ValidBookingInputs ==
    { BookingBody("abc123", "Jane Doe", "jane@example.com", "2024-06-01T10:00:00Z", NULL),
      BookingBody("m2", "Jane Doe", "jane@example.com", "2024-06-01T10:00:00Z", "call me") }

InvalidBookingInputs ==
    { BookingBody("abc123", "Jane Doe", "not-an-email", "2024-06-01T10:00:00Z", NULL),
      BookingBody(NULL, "Jane Doe", "jane@example.com", "2024-06-01T10:00:00Z", NULL),
      BookingBody("abc123", NULL, "jane@example.com", "2024-06-01T10:00:00Z", NULL),
      BookingBody("abc123", "Jane Doe", "jane@example.com", "tomorrow", NULL) }

BookingInputs == ValidBookingInputs \cup InvalidBookingInputs

MasterIdInputs == {NULL, "", "abc123", "m2"}

BookingsLimitInputs == {<<>>, <<-1>>, <<0>>, <<1>>, <<200>>, <<201>>}

-----------------------------------------------------------------------------
(* Document store gateway                                                  *)

\* The document create_document appends: the record's fields and a fresh _id.
Stored(record) == [f \in DOMAIN record \cup {"_id"} |->
                      IF f = "_id" THEN nextId ELSE record[f]]

\* create_document(kind, record) on a live connection: the store afterwards.
create_document(kind, record) ==
    [store EXCEPT ![kind] = Append(@, Stored(record))]

\* An equality filter over top-level fields.
Matches(doc, q) == \A f \in DOMAIN q : f \in DOMAIN doc /\ doc[f] = q[f]

RECURSIVE Select(_, _)
Select(docs, q) ==
    IF docs = <<>> THEN <<>>
    ELSE IF Matches(Head(docs), q) THEN <<Head(docs)>> \o Select(Tail(docs), q)
    ELSE Select(Tail(docs), q)

Take(s, n) == IF Len(s) <= n THEN s ELSE SubSeq(s, 1, n)

\* get_documents(kind, q, limit) on a live connection: the first `limit`
\* matching documents in storage order.
get_documents(kind, q, limit) == Take(Select(store[kind], q), limit)

NoFilter == [f \in {} |-> NULL]

TotalDocs == nextId - 1

\* Inserts still to come from the requests in flight.
Pending(r) == IF r.op = "seed" THEN 3 - Len(r.ids) ELSE 1

RECURSIVE SumPending(_)
SumPending(S) ==
    IF S = {} THEN 0
    ELSE LET r == CHOOSE x \in S : TRUE IN Pending(r) + SumPending(S \ {r})

Room(n) == TotalDocs + SumPending(inflight) + n <= MaxDocs

-----------------------------------------------------------------------------
(* Responses                                                               *)

NoReq == [kind |-> "none"]

NoResp == [op |-> "none", status |-> 0, body |-> NULL, req |-> NoReq,
           calls |-> 0, ids |-> <<>>, pre |-> {}]

\* A request between two of its store calls: ids are the identifiers its inserts
\* returned so far, token the first of them as an ObjectId.
Running(op, req, ids, token, pre) ==
    [op |-> op, req |-> req, ids |-> ids, token |-> token, pre |-> pre]

\* op's response; req is the request, calls the number of store calls the
\* request issued, ids the identifiers its inserts returned, pre the client
\* identifiers in the store when it arrived.
Response(op, status, body, req, calls, ids, pre) ==
    [op |-> op, status |-> status, body |-> body, req |-> req,
     calls |-> calls, ids |-> ids, pre |-> pre]

\* RequestValidationError: rejected by the framework before the handler runs.
Invalid(op, fields, req) == Response(op, 422, [detail |-> fields], req, 0, <<>>, {})

\* HTTPException(status_code=500, detail=str(e))
ServerError(op, req, calls, ids, pre) ==
    Response(op, 500, [detail |-> "error"], req, calls, ids, pre)

ClientIds == {store["client"][i]._id : i \in 1..Len(store["client"])}

Idle == resp.op = "none"

Init ==
    /\ connected \in BOOLEAN
    /\ startupOk = connected
    /\ store = [c \in Collections |-> <<>>]
    /\ nextId = 1
    /\ owner = <<>>
    /\ created = {}
    /\ inflight = {}
    /\ resp = NoResp

-----------------------------------------------------------------------------
(* Masters API                                                             *)

\* Variant of _serialize_master: role is the last skill, not the first.
_serialize_master_LastSkill(doc) ==
    [id |-> Str(doc._id),
     name |-> doc.name,
     role |-> IF doc.skills = <<>> THEN NULL ELSE doc.skills[Len(doc.skills)],
     rating |-> doc.rating,
     reviews_count |-> doc.reviews_count,
     city |-> doc.city,
     avatar |-> doc.avatar,
     verified |-> FALSE]

_serialize_master(doc) ==
    [id |-> Str(doc._id),
     name |-> doc.name,
     role |-> IF doc.skills = <<>> THEN NULL ELSE doc.skills[1],
     rating |-> doc.rating,
     reviews_count |-> doc.reviews_count,
     city |-> doc.city,
     avatar |-> doc.avatar,
     verified |-> FALSE]

SerializeAll(docs) == [i \in 1..Len(docs) |-> _serialize_master(docs[i])]

\* Variant of MastersFilter: the city parameter never reaches the filter.
MastersFilter_None(city) == NoFilter

MastersFilter(city) == IF Truthy(city) THEN [f \in {"city"} |-> city] ELSE NoFilter

list_masters(city, limit) ==
    LET req == [kind |-> "list_masters", city |-> city, limit |-> limit] IN
    /\ Idle
    /\ IF ~MastersLimitValid(limit)
       THEN resp' = Invalid("list_masters", {"limit"}, req)
       ELSE \E fails \in BOOLEAN :
              IF ~connected \/ fails
              THEN resp' = ServerError("list_masters", req, 1, <<>>, {})
              ELSE resp' = Response("list_masters", 200,
                               SerializeAll(get_documents("master", MastersFilter(city),
                                                          MastersLimit(limit))),
                               req, 1, <<>>, {})
    /\ UNCHANGED <<connected, startupOk, store, nextId, owner, created, inflight>>

\* Variant of create_master: a failed call on a missing connection reconnects
\* the gateway for the requests that follow.
create_master_Reconnect(master) ==
    LET req == [kind |-> "create_master", body |-> master] IN
    /\ Idle
    /\ IF MasterErrors(master) # {}
       THEN /\ resp' = Invalid("create_master", MasterErrors(master), req)
            /\ UNCHANGED <<connected, store, nextId, owner, created>>
       ELSE \E fails \in BOOLEAN :
              IF ~connected \/ fails
              THEN /\ resp' = ServerError("create_master", req, 1, <<>>, {})
                   /\ connected' = TRUE
                   /\ UNCHANGED <<store, nextId, owner, created>>
              ELSE /\ Room(1)
                   /\ store' = create_document("master", master)
                   /\ nextId' = nextId + 1
                   /\ owner' = Append(owner, nextId)
                   /\ created' = created \cup {<<Str(nextId), master>>}
                   /\ resp' = Response("create_master", 201, [id |-> Str(nextId)],
                                       req, 1, <<Str(nextId)>>, {})
                   /\ UNCHANGED connected
    /\ UNCHANGED <<startupOk, inflight>>

create_master(master) ==
    LET req == [kind |-> "create_master", body |-> master] IN
    /\ Idle
    /\ IF MasterErrors(master) # {}
       THEN /\ resp' = Invalid("create_master", MasterErrors(master), req)
            /\ UNCHANGED <<store, nextId, owner, created>>
       ELSE \E fails \in BOOLEAN :
              IF ~connected \/ fails
              THEN /\ resp' = ServerError("create_master", req, 1, <<>>, {})
                   /\ UNCHANGED <<store, nextId, owner, created>>
              ELSE /\ Room(1)
                   /\ store' = create_document("master", master)
                   /\ nextId' = nextId + 1
                   /\ owner' = Append(owner, nextId)
                   /\ created' = created \cup {<<Str(nextId), master>>}
                   /\ resp' = Response("create_master", 201, [id |-> Str(nextId)],
                                       req, 1, <<Str(nextId)>>, {})
    /\ UNCHANGED <<connected, startupOk, inflight>>

\* sample: the three demonstration masters.
SeedSample ==
    << MasterBody("Anna Petrova", NULL, "Moskva",
                  "https://images.unsplash.com/photo-1527980965255-d3b416303d12",
                  <<"Vizazhist">>, 49, 182),
       MasterBody("Irina Smirnova", NULL, "Sankt-Peterburg",
                  "https://images.unsplash.com/photo-1544005313-94ddf0286df2",
                  <<"Master manikyura">>, 48, 240),
       MasterBody("Maria Ivanova", NULL, "Kazan",
                  "https://images.unsplash.com/photo-1502685104226-ee32379fefbe",
                  <<"Parikmakher-stilist">>, 50, 320) >>

SeedReq == [kind |-> "seed"]

\* seed_demo_data up to and including its first create_document.
seed_demo_data ==
    /\ Idle
    /\ \E fails \in BOOLEAN :
         IF ~connected \/ fails
         THEN /\ resp' = ServerError("seed", SeedReq, 1, <<>>, {})
              /\ UNCHANGED <<store, nextId, owner, inflight>>
         ELSE /\ Room(Len(SeedSample))
              /\ Cardinality(inflight) < MaxInflight
              /\ store' = create_document("master", SeedSample[1])
              /\ nextId' = nextId + 1
              /\ owner' = Append(owner, nextId)
              /\ inflight' = inflight \cup
                    {Running("seed", SeedReq, <<Str(nextId)>>, nextId, {})}
              /\ resp' = resp
    /\ UNCHANGED <<connected, startupOk, created>>

\* seed_demo_data: the next create_document of the list comprehension, and the
\* return after the last.
seed_insert(t) ==
    LET k == Len(t.ids) + 1 IN
    /\ Idle
    /\ t \in inflight
    /\ t.op = "seed"
    /\ \E fails \in BOOLEAN :
         IF ~connected \/ fails
         THEN /\ resp' = ServerError("seed", SeedReq, k, t.ids, {})
              /\ inflight' = inflight \ {t}
              /\ UNCHANGED <<store, nextId, owner>>
         ELSE /\ store' = create_document("master", SeedSample[k])
              /\ nextId' = nextId + 1
              /\ owner' = Append(owner, t.token)
              /\ IF k = Len(SeedSample)
                 THEN /\ resp' = Response("seed", 200,
                                    [inserted |-> k, ids |-> Append(t.ids, Str(nextId))],
                                    SeedReq, k, Append(t.ids, Str(nextId)), {})
                      /\ inflight' = inflight \ {t}
                 ELSE /\ resp' = resp
                      /\ inflight' = (inflight \ {t}) \cup
                            {[t EXCEPT !.ids = Append(@, Str(nextId))]}
    /\ UNCHANGED <<connected, startupOk, created>>

-----------------------------------------------------------------------------
(* Booking API                                                             *)

\* Variant of ClientOf: name and email are passed in each other's place.
ClientOf_Swapped(r) == Client(r.email, r.name)

\* The client record create_booking builds from the request.
ClientOf(r) == Client(r.name, r.email)

\* Variant of BookingOf: client_id is read back as the newest client of the
\* store instead of being the value this request's insert returned.
BookingOf_LatestClient(r, client_id) ==
    Booking(r.master_id, Str(store["client"][Len(store["client"])]._id), "unknown",
            r.datetime_utc, "pending", r.notes)

\* The booking record create_booking builds once the client insert returned
\* client_id.
BookingOf(r, client_id) ==
    Booking(r.master_id, client_id, "unknown", r.datetime_utc, "pending", r.notes)

\* create_booking up to and including the client insert.
create_booking(r) ==
    LET req == [kind |-> "create_booking", body |-> r] IN
    /\ Idle
    /\ IF BookingRequestErrors(r) # {}
       THEN /\ resp' = Invalid("create_booking", BookingRequestErrors(r), req)
            /\ UNCHANGED <<store, nextId, owner, inflight>>
       ELSE \E fails \in BOOLEAN :
              IF ~connected \/ fails
              THEN /\ resp' = ServerError("create_booking", req, 1, <<>>, ClientIds)
                   /\ UNCHANGED <<store, nextId, owner, inflight>>
              ELSE /\ Room(2)
                   /\ Cardinality(inflight) < MaxInflight
                   /\ store' = create_document("client", ClientOf(r))
                   /\ nextId' = nextId + 1
                   /\ owner' = Append(owner, nextId)
                   /\ inflight' = inflight \cup
                         {Running("create_booking", req, <<Str(nextId)>>, nextId,
                                  ClientIds)}
                   /\ resp' = resp
    /\ UNCHANGED <<connected, startupOk, created>>

\* Variant of create_booking_insert: a failed booking insert removes the client
\* the request inserted.
create_booking_insert_Rollback(t) ==
    /\ Idle
    /\ t \in inflight
    /\ t.op = "create_booking"
    /\ inflight' = inflight \ {t}
    /\ \E fails \in BOOLEAN :
         IF ~connected \/ fails
         THEN /\ resp' = ServerError("create_booking", t.req, 2, t.ids, t.pre)
              /\ store' = [store EXCEPT !["client"] =
                              SelectSeq(@, LAMBDA c : Str(c._id) # t.ids[1])]
              /\ UNCHANGED <<nextId, owner>>
         ELSE /\ store' = create_document("booking", BookingOf(t.req.body, t.ids[1]))
              /\ nextId' = nextId + 1
              /\ owner' = Append(owner, t.token)
              /\ resp' = Response("create_booking", 201,
                                  [id |-> Str(nextId), status |-> "pending"],
                                  t.req, 2, Append(t.ids, Str(nextId)), t.pre)
    /\ UNCHANGED <<connected, startupOk, created>>

\* create_booking from the return of the client insert: the booking insert and
\* the response.
create_booking_insert(t) ==
    /\ Idle
    /\ t \in inflight
    /\ t.op = "create_booking"
    /\ inflight' = inflight \ {t}
    /\ \E fails \in BOOLEAN :
         IF ~connected \/ fails
         THEN /\ resp' = ServerError("create_booking", t.req, 2, t.ids, t.pre)
              /\ UNCHANGED <<store, nextId, owner>>
         ELSE /\ store' = create_document("booking", BookingOf(t.req.body, t.ids[1]))
              /\ nextId' = nextId + 1
              /\ owner' = Append(owner, t.token)
              /\ resp' = Response("create_booking", 201,
                                  [id |-> Str(nextId), status |-> "pending"],
                                  t.req, 2, Append(t.ids, Str(nextId)), t.pre)
    /\ UNCHANGED <<connected, startupOk, created>>

\* Variant of Sanitize: "id" is added and "_id" is left in the record.
Sanitize_KeepsId(d) == [f \in DOMAIN d \cup {"id"} |->
                           IF f = "id" THEN Str(d._id) ELSE d[f]]

\* d["id"] = str(d.pop("_id", ""))
Sanitize(d) == [f \in (DOMAIN d \ {"_id"}) \cup {"id"} |->
                   IF f = "id" THEN Str(d._id) ELSE d[f]]

SanitizeAll(docs) == [i \in 1..Len(docs) |-> Sanitize(docs[i])]

BookingsFilter(master_id) ==
    IF Truthy(master_id) THEN [f \in {"master_id"} |-> master_id] ELSE NoFilter

\* Variant of list_bookings: the records it renames are the stored ones.
list_bookings_InPlace(master_id, limit) ==
    LET req == [kind |-> "list_bookings", master_id |-> master_id, limit |-> limit] IN
    /\ Idle
    /\ IF ~BookingsLimitValid(limit)
       THEN resp' = Invalid("list_bookings", {"limit"}, req) /\ store' = store
       ELSE \E fails \in BOOLEAN :
              IF ~connected \/ fails
              THEN resp' = ServerError("list_bookings", req, 1, <<>>, {}) /\ store' = store
              ELSE /\ resp' = Response("list_bookings", 200,
                                 SanitizeAll(get_documents("booking",
                                                           BookingsFilter(master_id),
                                                           BookingsLimit(limit))),
                                 req, 1, <<>>, {})
                   /\ store' = [store EXCEPT !["booking"] = SanitizeAll(@)]
    /\ UNCHANGED <<connected, startupOk, nextId, owner, created, inflight>>

list_bookings(master_id, limit) ==
    LET req == [kind |-> "list_bookings", master_id |-> master_id, limit |-> limit] IN
    /\ Idle
    /\ IF ~BookingsLimitValid(limit)
       THEN resp' = Invalid("list_bookings", {"limit"}, req)
       ELSE \E fails \in BOOLEAN :
              IF ~connected \/ fails
              THEN resp' = ServerError("list_bookings", req, 1, <<>>, {})
              ELSE resp' = Response("list_bookings", 200,
                               SanitizeAll(get_documents("booking",
                                                         BookingsFilter(master_id),
                                                         BookingsLimit(limit))),
                               req, 1, <<>>, {})
    /\ UNCHANGED <<connected, startupOk, store, nextId, owner, created, inflight>>

-----------------------------------------------------------------------------
(* Liveness text, schema catalogue, diagnostics                            *)

read_root ==
    /\ Idle
    /\ resp' = Response("read_root", 200,
                        [message |-> "BeautyConnect backend is running"],
                        [kind |-> "read_root"], 0, <<>>, {})
    /\ UNCHANGED <<connected, startupOk, store, nextId, owner, created, inflight>>

hello ==
    /\ Idle
    /\ resp' = Response("hello", 200, [message |-> "Hello from the backend API!"],
                        [kind |-> "hello"], 0, <<>>, {})
    /\ UNCHANGED <<connected, startupOk, store, nextId, owner, created, inflight>>

get_schema ==
    /\ Idle
    /\ resp' = Response("get_schema", 200, ALL_SCHEMAS, [kind |-> "get_schema"],
                        0, <<>>, {})
    /\ UNCHANGED <<connected, startupOk, store, nextId, owner, created, inflight>>

\* db.list_collection_names(): the collections that hold a document.
list_collection_names == {c \in Collections : store[c] # <<>>}

test_database ==
    /\ Idle
    /\ IF connected
       THEN \E fails \in BOOLEAN :
              resp' = Response("test_database", 200,
                         [database |-> IF fails THEN "Connected but Error"
                                       ELSE "Connected & Working",
                          connection_status |-> "Connected",
                          collections |-> IF fails THEN {} ELSE list_collection_names],
                         [kind |-> "test_database"], 1, <<>>, {})
       ELSE resp' = Response("test_database", 200,
                         [database |-> "Available but not initialized",
                          connection_status |-> "Not Connected",
                          collections |-> {}],
                         [kind |-> "test_database"], 0, <<>>, {})
    /\ UNCHANGED <<connected, startupOk, store, nextId, owner, created, inflight>>

\* The response reaches its caller.
Deliver ==
    /\ ~Idle
    /\ resp' = NoResp
    /\ UNCHANGED <<connected, startupOk, store, nextId, owner, created, inflight>>

Next ==
    \/ \E city \in CityInputs, limit \in MastersLimitInputs : list_masters(city, limit)
    \/ \E master \in MasterInputs : create_master(master)
    \/ seed_demo_data
    \/ \E t \in inflight : seed_insert(t)
    \/ \E r \in BookingInputs : create_booking(r)
    \/ \E t \in inflight : create_booking_insert(t)
    \/ \E master_id \in MasterIdInputs, limit \in BookingsLimitInputs :
          list_bookings(master_id, limit)
    \/ read_root
    \/ hello
    \/ get_schema
    \/ test_database
    \/ Deliver

Spec == Init /\ [][Next]_vars

-----------------------------------------------------------------------------
(* Properties                                                              *)

Docs(kind) == {store[kind][i] : i \in 1..Len(store[kind])}

\* The documents the request with token tok inserted into collection kind.
InsertedBy(kind, tok) == {d \in Docs(kind) : owner[d._id] = tok}

Smaller(a, b) == IF a <= b THEN a ELSE b

Completes == Idle /\ ~Idle'

\* C1: a create_booking answered 201 has inserted exactly one client (built from
\* the request's name and email, under an id no client had when the request
\* arrived) and exactly one booking, whose client_id is that client's id, whose
\* master_id is the request's, whose service_id is "unknown" and whose status is
\* "pending"; the response carries the booking's id and "pending"; the request
\* made two store calls, the two inserts, and no lookup.
C1_CreateBookingSuccess ==
    (resp.op = "create_booking" /\ resp.status = 201) =>
        \E c \in Docs("client"), b \in Docs("booking") :
            /\ resp.ids = <<Str(c._id), Str(b._id)>>
            /\ InsertedBy("client", owner[c._id]) = {c}
            /\ InsertedBy("booking", owner[c._id]) = {b}
            /\ InsertedBy("master", owner[c._id]) = {}
            /\ c._id \notin resp.pre
            /\ c.name = resp.req.body.name
            /\ c.email = resp.req.body.email
            /\ b.client_id = Str(c._id)
            /\ b.master_id = resp.req.body.master_id
            /\ b.service_id = "unknown"
            /\ b.status = "pending"
            /\ resp.body = [id |-> Str(b._id), status |-> "pending"]
            /\ resp.calls = 2

\* A create_booking succeeds while the store holds an earlier client and no
\* master at all.
C1_Witness ==
    /\ resp.op = "create_booking"
    /\ resp.status = 201
    /\ resp.pre # {}
    /\ store["master"] = <<>>

\* The requests the claims call invalid, stated on the request itself.
BadLimit(limit, hi) == limit # <<>> /\ (limit[1] < 1 \/ limit[1] > hi)

BadMasterBody(m) ==
    \/ m.name = NULL
    \/ m.email = "not-an-email"
    \/ m.rating < 0
    \/ m.rating > 50
    \/ m.reviews_count < 0

BadBookingBody(r) ==
    \/ r.master_id = NULL
    \/ r.name = NULL
    \/ r.email = "not-an-email"
    \/ r.datetime_utc = "tomorrow"

FailsValidation(req) ==
    \/ req.kind = "list_masters" /\ BadLimit(req.limit, 100)
    \/ req.kind = "list_bookings" /\ BadLimit(req.limit, 200)
    \/ req.kind = "create_master" /\ BadMasterBody(req.body)
    \/ req.kind = "create_booking" /\ BadBookingBody(req.body)

\* C2: a request that fails validation is answered 422 having issued no store
\* call, and the step that answers it leaves the store as it was.
C2_InvalidRejectedBeforeStore ==
    [][(Completes /\ FailsValidation(resp'.req)) =>
          /\ resp'.status = 422
          /\ resp'.calls = 0
          /\ resp'.ids = <<>>
          /\ store' = store
          /\ nextId' = nextId]_vars

\* A master with a malformed email is rejected, naming the field, while the
\* store holds masters.
C2_Witness ==
    /\ resp.op = "create_master"
    /\ resp.status = 422
    /\ resp.req.body.email = "not-an-email"
    /\ "email" \in resp.body.detail
    /\ store["master"] # <<>>

IsList == resp.op \in {"list_masters", "list_bookings"}

LimitMax == IF resp.op = "list_masters" THEN 100 ELSE 200

EffectiveLimit ==
    IF resp.req.limit # <<>> THEN resp.req.limit[1]
    ELSE IF resp.op = "list_masters" THEN 12 ELSE 50

\* C3 as stated: a limit above the maximum is served as though it were the
\* maximum, and a limit of 0 or below is rejected.
C3_AsStated ==
    (IsList /\ resp.req.limit # <<>>) =>
        /\ resp.req.limit[1] > LimitMax => resp.status # 422
        /\ resp.req.limit[1] < 1 => resp.status = 422

\* C3, amended: a supplied limit outside [1,100] (masters) or [1,200] (bookings),
\* above as well as below, is rejected as invalid with no store call; a limit
\* inside the range, or none (12 and 50 by default), is not rejected and at most
\* that many records are returned.
C3_LimitRange ==
    IsList =>
        IF BadLimit(resp.req.limit, LimitMax)
        THEN resp.status = 422 /\ resp.calls = 0
        ELSE /\ resp.status \in {200, 500}
             /\ resp.status = 200 => Len(resp.body) <= EffectiveLimit

\* A list_masters with limit 101 is rejected while the store holds masters.
C3_Witness ==
    /\ resp.op = "list_masters"
    /\ resp.req.limit = <<101>>
    /\ resp.status = 422
    /\ store["master"] # <<>>

ListedMasters == resp.op = "list_masters" /\ resp.status = 200

\* The summary s is of the stored master doc.
SummaryOf(s, doc) ==
    /\ s.id = Str(doc._id)
    /\ s.city = doc.city
    /\ s.name = doc.name

\* C4 as stated: whenever a city value is supplied, the empty string included,
\* every returned summary is of a master whose city equals it.
C4_AsStated ==
    (ListedMasters /\ resp.req.city # NULL) =>
        \A i \in 1..Len(resp.body) :
            \E doc \in Docs("master") :
                SummaryOf(resp.body[i], doc) /\ doc.city = resp.req.city

\* C4, amended: with a non-empty city every returned summary is of a master
\* whose city equals it; with no city, or the empty string, the result is the
\* first `limit` masters whatever their city; never more than limit summaries.
C4_CityFilter ==
    ListedMasters =>
        /\ Len(resp.body) <= EffectiveLimit
        /\ \A i \in 1..Len(resp.body) :
              \E doc \in Docs("master") :
                  /\ SummaryOf(resp.body[i], doc)
                  /\ Truthy(resp.req.city) => doc.city = resp.req.city
        /\ ~Truthy(resp.req.city) =>
              /\ Len(resp.body) = Smaller(EffectiveLimit, Len(store["master"]))
              /\ \A i \in 1..Len(resp.body) :
                    SummaryOf(resp.body[i], store["master"][i])

\* A listing with city "Moskva" that returned a master and left another out.
C4_Witness ==
    /\ ListedMasters
    /\ resp.req.city = "Moskva"
    /\ resp.req.limit = <<>>
    /\ resp.body # <<>>
    /\ Len(resp.body) < Len(store["master"])

\* C5: an unfiltered list_masters whose limit is at least the number of stored
\* masters returns, for every create_master answered with id X before it, a
\* summary with id X whose name, city, avatar, rating and reviews_count are the
\* input's and whose role is the input's first skill (NULL when it has none).
C5_CreateThenList ==
    (/\ ListedMasters
     /\ resp.req.city = NULL
     /\ EffectiveLimit >= Len(store["master"])) =>
        \A cr \in created :
            \E i \in 1..Len(resp.body) :
                LET s == resp.body[i]
                    m == cr[2]
                IN /\ s.id = cr[1]
                   /\ s.name = m.name
                   /\ s.city = m.city
                   /\ s.avatar = m.avatar
                   /\ s.rating = m.rating
                   /\ s.reviews_count = m.reviews_count
                   /\ s.role = IF m.skills = <<>> THEN NULL ELSE Head(m.skills)

\* Such a listing after two create_master requests, one with several skills
\* and one with none.
C5_Witness ==
    /\ ListedMasters
    /\ resp.req.city = NULL
    /\ EffectiveLimit >= Len(store["master"])
    /\ \E a, b \in created : Len(a[2].skills) > 1 /\ b[2].skills = <<>>

\* C6: a create_booking that fails is answered 500 and its failing step adds no
\* record; when its client insert had succeeded, that client is in the store
\* and no booking refers to it; when the client insert itself failed, the
\* request has added neither a client nor a booking.
C6_PartialFailure ==
    [][(/\ Completes
        /\ resp'.op = "create_booking"
        /\ resp'.status \notin {201, 422}) =>
          /\ resp'.status = 500
          /\ store' = store
          /\ IF resp'.calls = 1
             THEN /\ resp'.ids = <<>>
                  /\ ClientIds' = resp'.pre
             ELSE /\ resp'.calls = 2
                  /\ Len(resp'.ids) = 1
                  /\ \E i \in 1..Len(store'["client"]) :
                        LET c == store'["client"][i]
                        IN /\ Str(c._id) = resp'.ids[1]
                           /\ c._id \notin resp'.pre
                           /\ c.name = resp'.req.body.name
                           /\ c.email = resp'.req.body.email
                  /\ \A i \in 1..Len(store'["booking"]) :
                        store'["booking"][i].client_id # resp'.ids[1]]_vars

\* A create_booking answered 500 after its client insert succeeded.
C6_Witness ==
    /\ resp.op = "create_booking"
    /\ resp.status = 500
    /\ resp.calls = 2
    /\ \E c \in Docs("client") : Str(c._id) = resp.ids[1]

StoreOps == {"list_masters", "create_master", "seed", "create_booking", "list_bookings"}

\* C7: once the startup connection attempt has failed the gateway is
\* unavailable in every later state, the store receives nothing, and every
\* store-touching request that passes validation is answered 500 on its first
\* store call, which is its only one.
C7_UnavailableForever ==
    ~startupOk =>
        /\ ~connected
        /\ \A c \in Collections : store[c] = <<>>
        /\ inflight = {}
        /\ (resp.op \in StoreOps /\ resp.status # 422) =>
              resp.status = 500 /\ resp.calls = 1 /\ resp.ids = <<>>

\* A seed request answered 500 after a failed startup.
C7_Witness ==
    /\ ~startupOk
    /\ resp.op = "seed"
    /\ resp.status = 500

IsPrefix(s, t) == Len(s) <= Len(t) /\ SubSeq(t, 1, Len(s)) = s

ReadOps == {"list_masters", "list_bookings", "get_schema", "test_database",
            "read_root", "hello"}

\* C8: every step leaves each stored record in place with its fields as they
\* were (a collection only gains records at its end), and a step that answers a
\* read request leaves every collection unchanged.
C8_AppendOnly ==
    [][/\ \A c \in Collections : IsPrefix(store[c], store'[c])
       /\ (Completes /\ resp'.op \in ReadOps) => store' = store]_vars

\* A list_bookings that returned a stored booking.
C8_Witness ==
    /\ resp.op = "list_bookings"
    /\ resp.status = 200
    /\ resp.body # <<>>
    /\ store["client"] # <<>>
    /\ store["master"] # <<>>

ListedBookings == resp.op = "list_bookings" /\ resp.status = 200

\* The returned record s is the stored booking d with _id replaced by id.
Exposes(s, d) ==
    /\ DOMAIN s = (DOMAIN d \ {"_id"}) \cup {"id"}
    /\ s.id = Str(d._id)
    /\ \A f \in DOMAIN d \ {"_id"} : s[f] = d[f]

\* C9: list_bookings with a non-empty master_id returns only bookings whose
\* master_id equals it, and with none or the empty string the first `limit`
\* bookings whatever their master; never more than limit records; each returned
\* record is a stored booking with its identifier as text under "id", no "_id",
\* and its other fields as stored.
C9_ListBookings ==
    ListedBookings =>
        /\ Len(resp.body) <= EffectiveLimit
        /\ \A i \in 1..Len(resp.body) :
              \E d \in Docs("booking") :
                  /\ Exposes(resp.body[i], d)
                  /\ Truthy(resp.req.master_id) => d.master_id = resp.req.master_id
        /\ ~Truthy(resp.req.master_id) =>
              /\ Len(resp.body) = Smaller(EffectiveLimit, Len(store["booking"]))
              /\ \A i \in 1..Len(resp.body) :
                    Exposes(resp.body[i], store["booking"][i])

\* A list_bookings for one master returns a booking and leaves out another's.
C9_Witness ==
    /\ ListedBookings
    /\ resp.req.master_id = "abc123"
    /\ resp.body # <<>>
    /\ Len(resp.body) < Len(store["booking"])

\* C10: in every reachable state each booking's client_id is the id of a stored
\* client inserted by the request that inserted the booking, no two bookings
\* share a client_id, there are at least as many clients as bookings, and every
\* booking has status "pending" and service_id "unknown".
C10_BookingsReferToOwnClient ==
    /\ \A b \in Docs("booking") :
          /\ \E c \in Docs("client") :
                Str(c._id) = b.client_id /\ owner[c._id] = owner[b._id]
          /\ b.status = "pending"
          /\ b.service_id = "unknown"
    /\ \A i, j \in 1..Len(store["booking"]) :
          i # j => store["booking"][i].client_id # store["booking"][j].client_id
    /\ Len(store["client"]) >= Len(store["booking"])

\* Two create_booking requests whose inserts interleaved: the later client's
\* booking was inserted first.
C10_Witness ==
    \E b1, b2 \in Docs("booking") :
        \E c1, c2 \in Docs("client") :
            /\ Str(c1._id) = b1.client_id
            /\ Str(c2._id) = b2.client_id
            /\ c1._id < c2._id
            /\ b2._id < b1._id

====
